---- MODULE Spec2Model ----
(***************************************************************************)
(* A model of stylelint's report() utility (lib/utils/report.mjs): the     *)
(* per-document Result State (result.stylelint and the warnings attached   *)
(* to the postcss result) and the one operation that changes it.           *)
(*                                                                         *)
(* JavaScript values are encoded as follows.                               *)
(*   - an object used as a map with optional keys (disabledRanges,         *)
(*     ruleSeverities, ruleMetadata, fixersData) is a function whose       *)
(*     DOMAIN holds the keys that are present;                             *)
(*   - an optional number (problem.line, range.end, range.start.line) is   *)
(*     NoLine when it is undefined; real lines are 1-based;                *)
(*   - an optional severity is the string "undefined" when it is missing.  *)
(***************************************************************************)
EXTENDS Integers, Sequences, FiniteSets, TLC

\* ------------------------------------------------------------------ bounds
\* Number of report() calls made on one Result State.
MaxCalls == 2
\* Highest line a Problem of the main specification can point at.
MaxLine == 1
\* Highest line of a suppression range in the isDisabled specification.
MaxRangeLine == 2
\* Highest total number of ranges in a table of the isDisabled specification.
MaxRanges == 2
\* Longest message template, longest argument and most arguments of the
\* message specification.
MaxFormatLen == 3
MaxArgLen == 2
MaxArgs == 2
\* Longest declaration value of the rule specification.
MaxValueLen == 4
\* Largest index, endIndex and position line of a Problem's position fields.
MaxIndex == 1

\* --------------------------------------------------------------- constants
Rules == {"ruleA", "ruleB"}

RULE_NAME_ALL == "all"

\* The encoding of an undefined line number / range end.
NoLine == 0

Severities == {"error", "warning"}

VARIABLES
    stylelint,   \* result.stylelint: configuration view and bookkeeping
    messages,    \* the warnings result.warn() attached to the result, in order
    fixCalls,    \* how many times a fix callback has been invoked
    calls,       \* how many report() calls were made
    last,        \* the last report() call: resolved inputs and how it ended
    probe,       \* the last isDisabled() evaluation of the lookup specification
    evaluated    \* the last evaluation of the other helper specifications

vars == <<stylelint, messages, fixCalls, calls, last, probe, evaluated>>

\* ------------------------------------------------------ suppression lookup

\* One range of result.stylelint.disabledRanges[key].
\* hasRules is FALSE when range.rules is undefined.
Range(start, end, hasRules, rules) ==
    [start |-> start, end |-> end, hasRules |-> hasRules, rules |-> rules]

\* The condition of the if inside isDisabled's loop.
rangeMatches(range, ruleName, startLine) ==
    /\ range.start <= startLine
    /\ (range.end = NoLine \/ range.end >= startLine)
    /\ (~range.hasRules \/ ruleName \in range.rules)

\* The for loop of isDisabled from position i on: true at the first match.
RECURSIVE scanRanges(_, _, _, _)
scanRanges(ranges, i, ruleName, startLine) ==
    IF i > Len(ranges) THEN FALSE
    ELSE IF rangeMatches(ranges[i], ruleName, startLine) THEN TRUE
    ELSE scanRanges(ranges, i + 1, ruleName, startLine)

\* disabledRanges[ruleName] ?? disabledRanges[RULE_NAME_ALL] ?? []
lookupRangesUnion(ruleName, disabledRanges) ==
    (IF ruleName \in DOMAIN disabledRanges THEN disabledRanges[ruleName] ELSE <<>>)
    \o (IF RULE_NAME_ALL \in DOMAIN disabledRanges
        THEN disabledRanges[RULE_NAME_ALL] ELSE <<>>)

lookupRangesEmptyFallsBack(ruleName, disabledRanges) ==
    IF ruleName \in DOMAIN disabledRanges /\ disabledRanges[ruleName] # <<>>
    THEN disabledRanges[ruleName]
    ELSE IF RULE_NAME_ALL \in DOMAIN disabledRanges THEN disabledRanges[RULE_NAME_ALL]
    ELSE <<>>

lookupRanges(ruleName, disabledRanges) ==
    IF ruleName \in DOMAIN disabledRanges THEN disabledRanges[ruleName]
    ELSE IF RULE_NAME_ALL \in DOMAIN disabledRanges THEN disabledRanges[RULE_NAME_ALL]
    ELSE <<>>

isDisabled(ruleName, startLine, disabledRanges) ==
    scanRanges(lookupRanges(ruleName, disabledRanges), 1, ruleName, startLine)

\* ------------------------------------------------------------ autofix gate

\* One entry of fixersData[ruleName]. hasRange is FALSE when range is undefined.
FixData(fixed, hasRange) == [fixed |-> fixed, hasRange |-> hasRange]

\* fixersData[ruleName] ??= [] followed by the push.
addFixData(fixersData, ruleName, hasRange, fixed) ==
    LET ruleFixers == IF ruleName \in DOMAIN fixersData THEN fixersData[ruleName] ELSE <<>>
    IN  [r \in DOMAIN fixersData \cup {ruleName} |->
            IF r = ruleName THEN Append(ruleFixers, FixData(fixed, hasRange))
            ELSE fixersData[r]]

\* Boolean(config.fix && !config.rules?.[ruleName][1]?.disableFix)
shouldFix(config, ruleName) ==
    config.fix /\ ~config.disableFix[ruleName]

\* shouldFix && (config.ignoreDisables || !isDisabled(ruleName, line, disabledRanges))
mayFixNoSuppression(sl, ruleName, line) ==
    shouldFix(sl.config, ruleName)

mayFixOncePerRule(sl, ruleName, line) ==
    /\ shouldFix(sl.config, ruleName)
    /\ (sl.config.ignoreDisables \/ ~isDisabled(ruleName, line, sl.disabledRanges))
    /\ ruleName \notin DOMAIN sl.fixersData

mayFix(sl, ruleName, line) ==
    /\ shouldFix(sl.config, ruleName)
    /\ (sl.config.ignoreDisables \/ ~isDisabled(ruleName, line, sl.disabledRanges))

\* isFixApplied on the state (sl, nFix): the state after it and what it returned.
\* fix is "none" (no callback), "inplace" (the callback returns nothing) or
\* "ranged" (the callback returns the range it edited).
isFixAppliedCallbacksOnly(sl, nFix, fix, line, ruleName) ==
    IF fix = "none"
    THEN [stylelint |-> sl, fixCalls |-> nFix, applied |-> FALSE]
    ELSE IF mayFix(sl, ruleName, line)
    THEN [stylelint |-> [sl EXCEPT !.fixersData =
                            addFixData(@, ruleName, fix = "ranged", TRUE)],
          fixCalls |-> nFix + 1, applied |-> TRUE]
    ELSE [stylelint |-> [sl EXCEPT !.fixersData = addFixData(@, ruleName, FALSE, FALSE)],
          fixCalls |-> nFix, applied |-> FALSE]

isFixApplied(sl, nFix, fix, line, ruleName) ==
    IF fix = "none"
    THEN [stylelint |-> [sl EXCEPT !.fixersData = addFixData(@, ruleName, FALSE, FALSE)],
          fixCalls |-> nFix, applied |-> FALSE]
    ELSE IF mayFix(sl, ruleName, line)
    THEN [stylelint |-> [sl EXCEPT !.fixersData =
                            addFixData(@, ruleName, fix = "ranged", TRUE)],
          fixCalls |-> nFix + 1, applied |-> TRUE]
    ELSE [stylelint |-> [sl EXCEPT !.fixersData = addFixData(@, ruleName, FALSE, FALSE)],
          fixCalls |-> nFix, applied |-> FALSE]

\* ------------------------------------------------------------------ report

\* A severity override of a Problem (problem.severity).
\* kind "none": not passed; "literal": value is the severity;
\* "function": value is what the function returns on messageArgs
\* ("undefined" for a falsy result).
Override(kind, value) == [kind |-> kind, value |-> value]

\* config: { defaultSeverity = 'error', ... }
defaultSeverity(config) ==
    IF config.defaultSeverity = "undefined" THEN "error" ELSE config.defaultSeverity

\* const { severity = ruleSeverities[ruleName] } = rest;
\* ruleSeverity = isFn(severity) ? severity(...messageArgs) || defaultSeverity : severity
ruleSeverity(sl, problem) ==
    LET severity ==
            IF problem.severity.kind = "none"
            THEN Override("literal",
                          IF problem.ruleName \in DOMAIN sl.ruleSeverities
                          THEN sl.ruleSeverities[problem.ruleName] ELSE "undefined")
            ELSE problem.severity
    IN  IF severity.kind = "function"
        THEN (IF severity.value # "undefined" THEN severity.value
              ELSE defaultSeverity(sl.config))
        ELSE severity.value

\* range = node?.rangeBy({ index, endIndex }) ?? {};  line ?? range.start?.line
\* nodeLine is NoLine when rangeBy yields no start line.
startLineDefaultsToFirst(problem) ==
    IF problem.line # NoLine THEN problem.line
    ELSE IF problem.hasNode /\ problem.nodeLine # NoLine THEN problem.nodeLine
    ELSE 1

startLine(problem) ==
    IF problem.line # NoLine THEN problem.line
    ELSE IF problem.hasNode THEN problem.nodeLine
    ELSE NoLine

\* quiet && ruleSeverity !== 'error'
quietFilteredAnySeverity(sl, severity) ==
    sl.quiet

quietFiltered(sl, severity) ==
    sl.quiet /\ severity # "error"

\* isFn(fix) && metadata && !metadata.fixable
misusedFixNoEntry(sl, problem) ==
    /\ problem.fix # "none"
    /\ problem.ruleName \notin DOMAIN sl.ruleMetadata

misusedFix(sl, problem) ==
    /\ problem.fix # "none"
    /\ problem.ruleName \in DOMAIN sl.ruleMetadata
    /\ ~sl.ruleMetadata[problem.ruleName].fixable

\* What a report() call leaves behind and how it ended:
\* "quiet" (returned by the quiet filter), "misused" and "noline" (threw),
\* "fixed" (returned after the fix), "suppressed" (returned inside a disabled
\* range), "warned" (called result.warn).
Ended(sl, msgs, nFix, outcome) ==
    [stylelint |-> sl, messages |-> msgs, fixCalls |-> nFix, outcome |-> outcome]

\* The warning handed to result.warn().
Warning(ruleName, severity) == [rule |-> ruleName, severity |-> severity]

\* The latches and result.warn().
warnOverwrite(sl, msgs, nFix, ruleName, severity) ==
    Ended([sl EXCEPT !.stylelintError = (severity = "error"),
                     !.stylelintWarning = (severity = "warning")],
          Append(msgs, Warning(ruleName, severity)), nFix, "warned")

warn(sl, msgs, nFix, ruleName, severity) ==
    Ended([sl EXCEPT !.stylelintError = @ \/ severity = "error",
                     !.stylelintWarning = @ \/ severity = "warning"],
          Append(msgs, Warning(ruleName, severity)), nFix, "warned")

\* The isDisabled branch of report: the disabled warning is collected, and the
\* problem is dropped unless config.ignoreDisables.
recheckAlwaysDrop(sl, msgs, nFix, ruleName, line, severity) ==
    IF isDisabled(ruleName, line, sl.disabledRanges)
    THEN Ended([sl EXCEPT !.disabledWarnings =
                              Append(@, [rule |-> ruleName, line |-> line])],
               msgs, nFix, "suppressed")
    ELSE warn(sl, msgs, nFix, ruleName, severity)

recheckPushWhenDropped(sl, msgs, nFix, ruleName, line, severity) ==
    IF isDisabled(ruleName, line, sl.disabledRanges)
    THEN IF ~sl.config.ignoreDisables
         THEN Ended([sl EXCEPT !.disabledWarnings =
                                   Append(@, [rule |-> ruleName, line |-> line])],
                    msgs, nFix, "suppressed")
         ELSE warn(sl, msgs, nFix, ruleName, severity)
    ELSE warn(sl, msgs, nFix, ruleName, severity)

recheckLatchesFirst(sl, msgs, nFix, ruleName, line, severity) ==
    LET latched == [sl EXCEPT !.stylelintError = @ \/ severity = "error",
                              !.stylelintWarning = @ \/ severity = "warning"]
    IN  IF isDisabled(ruleName, line, sl.disabledRanges)
        THEN LET collected == [latched EXCEPT !.disabledWarnings =
                                   Append(@, [rule |-> ruleName, line |-> line])]
             IN  IF ~sl.config.ignoreDisables
                 THEN Ended(collected, msgs, nFix, "suppressed")
                 ELSE warn(collected, msgs, nFix, ruleName, severity)
        ELSE warn(sl, msgs, nFix, ruleName, severity)

recheck(sl, msgs, nFix, ruleName, line, severity) ==
    IF isDisabled(ruleName, line, sl.disabledRanges)
    THEN LET collected == [sl EXCEPT !.disabledWarnings =
                                Append(@, [rule |-> ruleName, line |-> line])]
         IN  IF ~sl.config.ignoreDisables
             THEN Ended(collected, msgs, nFix, "suppressed")
             ELSE warn(collected, msgs, nFix, ruleName, severity)
    ELSE warn(sl, msgs, nFix, ruleName, severity)

\* if (isFixApplied({ ...problem, line: startLine })) return;  and what follows.
gateNoReturn(sl, msgs, nFix, problem, line, severity) ==
    LET gate == isFixApplied(sl, nFix, problem.fix, line, problem.ruleName)
    IN  recheck(gate.stylelint, msgs, gate.fixCalls, problem.ruleName, line, severity)

gate(sl, msgs, nFix, problem, line, severity) ==
    LET applied == isFixApplied(sl, nFix, problem.fix, line, problem.ruleName)
    IN  IF applied.applied
        THEN Ended(applied.stylelint, msgs, applied.fixCalls, "fixed")
        ELSE recheck(applied.stylelint, msgs, applied.fixCalls,
                     problem.ruleName, line, severity)

\* report(problem) on the state (sl, msgs, nFix).
reportLineCheckLate(sl, msgs, nFix, problem) ==
    LET severity == ruleSeverity(sl, problem)
        line == startLine(problem)
    IN  IF quietFiltered(sl, severity) THEN Ended(sl, msgs, nFix, "quiet")
        ELSE IF misusedFix(sl, problem) THEN Ended(sl, msgs, nFix, "misused")
        ELSE LET applied == isFixApplied(sl, nFix, problem.fix, line, problem.ruleName)
             IN  IF line = NoLine
                 THEN Ended(applied.stylelint, msgs, applied.fixCalls, "noline")
                 ELSE gate(sl, msgs, nFix, problem, line, severity)

report(sl, msgs, nFix, problem) ==
    LET severity == ruleSeverity(sl, problem)
        line == startLine(problem)
    IN  IF quietFiltered(sl, severity) THEN Ended(sl, msgs, nFix, "quiet")
        ELSE IF misusedFix(sl, problem) THEN Ended(sl, msgs, nFix, "misused")
        ELSE IF line = NoLine THEN Ended(sl, msgs, nFix, "noline")
        ELSE gate(sl, msgs, nFix, problem, line, severity)

\* ------------------------------------------------------------------ inputs

Overrides ==
    {Override("none", "undefined")}
    \cup {Override("literal", s) : s \in Severities}
    \cup {Override("function", s) : s \in Severities \cup {"undefined"}}

\* The Problems a rule can hand to report(). A Problem without a node has no
\* node line.
Problems ==
    {p \in [ruleName : Rules, fix : {"none", "inplace", "ranged"},
            line : NoLine..MaxLine, hasNode : BOOLEAN, nodeLine : NoLine..MaxLine,
            severity : Overrides] :
        ~p.hasNode => p.nodeLine = NoLine}

\* Suppression tables of the main specification.
\*   1: ruleA is disabled on line 1 only (own key); ruleB falls back to an
\*      open-ended blanket range.
\*   2: a blanket range restricted to ruleB; ruleA is disabled nowhere.
DisabledTables ==
    { [k \in {"ruleA", RULE_NAME_ALL} |->
          IF k = "ruleA" THEN <<Range(1, 1, FALSE, {})>>
          ELSE <<Range(1, NoLine, FALSE, {})>>],
      [k \in {RULE_NAME_ALL} |-> <<Range(1, NoLine, TRUE, {"ruleB"})>>] }

\* Per-rule configuration: metadata, secondary option disableFix, severities.
RuleSetups ==
    { [ruleMetadata |-> [r \in Rules |-> [fixable |-> r = "ruleA"]],
       disableFix |-> [r \in Rules |-> FALSE],
       ruleSeverities |-> [r \in Rules |-> IF r = "ruleA" THEN "error" ELSE "warning"],
       defaultSeverity |-> "undefined"],
      [ruleMetadata |-> [r \in {"ruleB"} |-> [fixable |-> TRUE]],
       disableFix |-> [r \in Rules |-> r = "ruleB"],
       ruleSeverities |-> [r \in {"ruleA"} |-> "warning"],
       defaultSeverity |-> "warning"] }

\* result.stylelint before any rule has reported.
NewStylelint(quiet, ignoreDisables, fix, setup, disabledRanges) ==
    [quiet |-> quiet,
     ruleSeverities |-> setup.ruleSeverities,
     config |-> [defaultSeverity |-> setup.defaultSeverity,
                 ignoreDisables |-> ignoreDisables,
                 fix |-> fix,
                 disableFix |-> setup.disableFix],
     ruleMetadata |-> setup.ruleMetadata,
     disabledRanges |-> disabledRanges,
     disabledWarnings |-> <<>>,
     fixersData |-> [r \in {} |-> <<>>],
     stylelintError |-> FALSE,
     stylelintWarning |-> FALSE]

NoCall ==
    [ruleName |-> "none", fix |-> "none", bare |-> FALSE, startLine |-> NoLine,
     severity |-> "undefined", outcome |-> "none"]

NoProbe == [ruleName |-> "none", line |-> NoLine, disabled |-> FALSE]

NoEvaluation == [done |-> FALSE]

\* ----------------------------------------------------------- specification

Init ==
    /\ \E quiet \in BOOLEAN, ignoreDisables \in BOOLEAN, fix \in BOOLEAN,
          setup \in RuleSetups, table \in DisabledTables :
            stylelint = NewStylelint(quiet, ignoreDisables, fix, setup, table)
    /\ messages = <<>>
    /\ fixCalls = 0
    /\ calls = 0
    /\ last = NoCall
    /\ probe = NoProbe
    /\ evaluated = NoEvaluation

\* One report(problem) call.
Report(problem) ==
    /\ calls < MaxCalls
    /\ \E ended \in {report(stylelint, messages, fixCalls, problem)} :
           /\ stylelint' = ended.stylelint
           /\ messages' = ended.messages
           /\ fixCalls' = ended.fixCalls
           /\ last' = [ruleName |-> problem.ruleName,
                       fix |-> problem.fix,
                       bare |-> /\ problem.line = NoLine
                                /\ (~problem.hasNode \/ problem.nodeLine = NoLine),
                       startLine |-> startLine(problem),
                       severity |-> ruleSeverity(stylelint, problem),
                       outcome |-> ended.outcome]
    /\ calls' = calls + 1
    /\ UNCHANGED <<probe, evaluated>>

Next == \E problem \in Problems : Report(problem)

Spec == Init /\ [][Next]_vars

\* ------------------------------------------- the suppression lookup alone

\* Every range with lines up to MaxRangeLine: open-ended or closed, with no
\* rule list or with a list that names ruleB only.
RangeSet ==
    UNION {{Range(start, end, hasRules, IF hasRules THEN {"ruleB"} ELSE {}) :
                end \in {NoLine} \cup start..MaxRangeLine} :
           <<start, hasRules>> \in (1..MaxRangeLine) \X BOOLEAN}

\* An entry of the table: absent, or a sequence of at most n ranges.
Entries(n) ==
    {[present |-> FALSE, ranges |-> <<>>]}
    \cup UNION {{[present |-> TRUE, ranges |-> rs] : rs \in [1..k -> RangeSet]} :
                k \in 0..n}

TableOf(own, blanket) ==
    [k \in (IF own.present THEN {"ruleA"} ELSE {})
           \cup (IF blanket.present THEN {RULE_NAME_ALL} ELSE {}) |->
        IF k = "ruleA" THEN own.ranges ELSE blanket.ranges]

\* Tables with an optional entry for ruleA, an optional blanket entry and at
\* most MaxRanges ranges in all.
LookupTables ==
    UNION {{TableOf(own, blanket) : blanket \in Entries(MaxRanges - Len(own.ranges))} :
           own \in Entries(MaxRanges)}

InitLookup ==
    /\ \E table \in LookupTables :
            stylelint = NewStylelint(FALSE, FALSE, FALSE,
                                     CHOOSE setup \in RuleSetups : TRUE, table)
    /\ messages = <<>>
    /\ fixCalls = 0
    /\ calls = 0
    /\ last = NoCall
    /\ probe = NoProbe
    /\ evaluated = NoEvaluation

\* One isDisabled(ruleName, line, disabledRanges) evaluation.
Probe(ruleName, line) ==
    /\ probe' = [ruleName |-> ruleName, line |-> line,
                 disabled |-> isDisabled(ruleName, line, stylelint.disabledRanges)]
    /\ UNCHANGED <<stylelint, messages, fixCalls, calls, last, evaluated>>

NextLookup == \E ruleName \in Rules, line \in 1..MaxRangeLine : Probe(ruleName, line)

SpecLookup == InitLookup /\ [][NextLookup]_vars

\* --------------------------------------------- the severity resolver alone

\* Configurations of the severity specification: each rule setup with each
\* value of config.defaultSeverity.
InitSeverity ==
    /\ \E setup \in RuleSetups, default \in Severities \cup {"undefined"} :
            stylelint = NewStylelint(FALSE, FALSE, FALSE,
                                     [setup EXCEPT !.defaultSeverity = default],
                                     CHOOSE table \in DisabledTables : TRUE)
    /\ messages = <<>>
    /\ fixCalls = 0
    /\ calls = 0
    /\ last = NoCall
    /\ probe = NoProbe
    /\ evaluated = NoEvaluation

\* The severity report() resolves for one Problem.
Resolve(problem) ==
    /\ evaluated' = [done |-> TRUE, problem |-> problem,
                     severity |-> ruleSeverity(stylelint, problem)]
    /\ UNCHANGED <<stylelint, messages, fixCalls, calls, last, probe>>

NextSeverity == \E problem \in Problems : Resolve(problem)

SpecSeverity == InitSeverity /\ [][NextSeverity]_vars

\* ------------------------------------------------- the message formatter

\* Strings are sequences of one-character strings.
Chars == {"%", "s", "d", "$"}

StringsUpTo(n) == UNION {[1..k -> Chars] : k \in 0..n}

\* Where the first match of /%[ds]/ starts in text, from position i on
\* (0: no match).
RECURSIVE firstPlaceholder(_, _)
firstPlaceholder(text, i) ==
    IF i + 1 > Len(text) THEN 0
    ELSE IF text[i] = "%" /\ text[i + 1] \in {"d", "s"} THEN i
    ELSE firstPlaceholder(text, i + 1)

\* What String.prototype.replace inserts for a replacement string: "$$"
\* stands for one "$"; the other "$" patterns need characters ("&", "`", "'",
\* digits with a capture group) that Chars does not have.
RECURSIVE expandReplacement(_)
expandReplacement(replacement) ==
    IF replacement = <<>> THEN <<>>
    ELSE IF Len(replacement) >= 2 /\ replacement[1] = "$" /\ replacement[2] = "$"
    THEN <<"$">> \o expandReplacement(SubSeq(replacement, 3, Len(replacement)))
    ELSE <<replacement[1]>> \o expandReplacement(Tail(replacement))

\* result.replace(/%[ds]/, String(arg)): the first match in result is replaced.
replaceFirst(result, arg) ==
    LET at == firstPlaceholder(result, 1)
    IN  IF at = 0 THEN result
        ELSE SubSeq(result, 1, at - 1) \o expandReplacement(arg)
             \o SubSeq(result, at + 2, Len(result))

\* args.reduce((result, arg) => result.replace(/%[ds]/, String(arg)), format)
RECURSIVE printfLike(_, _)
printfLike(format, args) ==
    IF args = <<>> THEN format
    ELSE printfLike(replaceFirst(format, Head(args)), Tail(args))

\* A message: a template string (kind "string", text) or a function (kind
\* "function", text is what it returns on the arguments).
Message(kind, text) == [kind |-> kind, text |-> text]

buildWarningMessage(message, messageArgs) ==
    IF message.kind = "string" THEN printfLike(message.text, messageArgs)
    ELSE message.text

\* result.stylelint of the specifications that do not read it.
IdleStylelint ==
    NewStylelint(FALSE, FALSE, FALSE, CHOOSE setup \in RuleSetups : TRUE,
                 CHOOSE table \in DisabledTables : TRUE)

InitIdle ==
    /\ stylelint = IdleStylelint
    /\ messages = <<>>
    /\ fixCalls = 0
    /\ calls = 0
    /\ last = NoCall
    /\ probe = NoProbe
    /\ evaluated = NoEvaluation

\* The buildWarningMessage(message, messageArgs) evaluation of a behaviour.
Format(message, messageArgs) ==
    /\ evaluated' = [done |-> TRUE, message |-> message, messageArgs |-> messageArgs,
                     text |-> buildWarningMessage(message, messageArgs)]
    /\ UNCHANGED <<stylelint, messages, fixCalls, calls, last, probe>>

NextFormat ==
    /\ ~evaluated.done
    /\ \E kind \in {"string", "function"}, text \in StringsUpTo(MaxFormatLen),
          n \in 0..MaxArgs :
           \E messageArgs \in [1..n -> StringsUpTo(MaxArgLen)] :
               Format(Message(kind, text), messageArgs)

SpecFormat == InitIdle /\ [][NextFormat]_vars

\* ------------------------------------- the rule function-space-after

\* The rule's ruleName.
FUNCTION_SPACE_AFTER == "function-space-after"

\* messages.expected and messages.rejected.
messages_expected == "Expected single space after \")\""
messages_rejected == "Unexpected whitespace after \")\""

\* The characters of a declaration value.
ValueChars == {")", " ", "\n", ",", "a"}

\* The encoding of a Problem field that is not passed.
NoIndex == -1

\* source[index], with 0-based index: "undefined" outside the string.
charAt(source, index) ==
    IF index >= 0 /\ index < Len(source) THEN source[index + 1] ELSE "undefined"

\* utils.isWhitespace: a space, a newline, a tab, a carriage return or a form feed.
isWhitespace(char) == char \in {" ", "\n", "\t", "\r", "\f"}

\* utils.styleSearch({ source, target }, callback): the 0-based indexes of the
\* occurrences of target in source from index from on, in the order the
\* callback gets them.
RECURSIVE styleSearch(_, _, _)
styleSearch(source, target, from) ==
    IF from >= Len(source) THEN <<>>
    ELSE (IF charAt(source, from) = target THEN <<from>> ELSE <<>>)
         \o styleSearch(source, target, from + 1)

\* The object the rule hands to report(): message, node, result and ruleName;
\* no index is passed.
RuleProblem(message, node) ==
    [message |-> message, node |-> node, ruleName |-> FUNCTION_SPACE_AFTER, index |-> NoIndex]

\* checkClosingParen(source, index, node) under expectation: the report()
\* calls it makes, each with the index of the parenthesis it was made for.
checkClosingParenAnySpace(expectation, source, index, node) ==
    LET nextChar == charAt(source, index + 1)
    IN  IF expectation = "always"
        THEN IF nextChar = " " THEN <<>>
             ELSE IF nextChar \in {")", ",", "undefined"} THEN <<>>
             ELSE <<[at |-> index, problem |-> RuleProblem(messages_expected, node)]>>
        ELSE IF expectation = "never"
        THEN IF isWhitespace(nextChar)
             THEN <<[at |-> index, problem |-> RuleProblem(messages_rejected, node)]>>
             ELSE <<>>
        ELSE <<>>

checkClosingParenSpaceOnly(expectation, source, index, node) ==
    LET nextChar == charAt(source, index + 1)
    IN  IF expectation = "always"
        THEN IF nextChar = " " /\ ~isWhitespace(charAt(source, index + 2)) THEN <<>>
             ELSE IF nextChar \in {")", ",", "undefined"} THEN <<>>
             ELSE <<[at |-> index, problem |-> RuleProblem(messages_expected, node)]>>
        ELSE IF expectation = "never"
        THEN IF nextChar = " "
             THEN <<[at |-> index, problem |-> RuleProblem(messages_rejected, node)]>>
             ELSE <<>>
        ELSE <<>>

checkClosingParen(expectation, source, index, node) ==
    LET nextChar == charAt(source, index + 1)
    IN  IF expectation = "always"
        THEN IF nextChar = " " /\ ~isWhitespace(charAt(source, index + 2)) THEN <<>>
             ELSE IF nextChar \in {")", ",", "undefined"} THEN <<>>
             ELSE <<[at |-> index, problem |-> RuleProblem(messages_expected, node)]>>
        ELSE IF expectation = "never"
        THEN IF isWhitespace(nextChar)
             THEN <<[at |-> index, problem |-> RuleProblem(messages_rejected, node)]>>
             ELSE <<>>
        ELSE <<>>

\* The styleSearch callback applied to the matches from the k-th on.
RECURSIVE eachMatch(_, _, _, _, _)
eachMatch(expectation, value, node, matches, k) ==
    IF k > Len(matches) THEN <<>>
    ELSE checkClosingParen(expectation, value, matches[k], node)
         \o eachMatch(expectation, value, node, matches, k + 1)

\* The rule on one declaration decl with value decl.value.
lintDeclaration(expectation, value, node) ==
    eachMatch(expectation, value, node, styleSearch(value, ")", 0), 1)

\* The rule run on a stylesheet with one declaration.
Lint(expectation, value) ==
    /\ evaluated' = [done |-> TRUE, expectation |-> expectation, value |-> value,
                     reported |-> lintDeclaration(expectation, value, "decl")]
    /\ UNCHANGED <<stylelint, messages, fixCalls, calls, last, probe>>

NextRule ==
    /\ ~evaluated.done
    /\ \E expectation \in {"always", "never"}, n \in 0..MaxValueLen :
          \E value \in [1..n -> ValueChars] : Lint(expectation, value)

SpecRule == InitIdle /\ [][NextRule]_vars

\* ------------------------------------------- position fields of a warning

\* The values a Problem can carry in start, end, index and endIndex: a value
\* is its JavaScript type and a number n, which is the number itself, the line
\* of a position object, or the digit of a string.
Value(type, n) == [type |-> type, n |-> n]

undefined == Value("undefined", 0)

\* start and end: not passed, null, or a position.
PositionValues ==
    {undefined, Value("null", 0)} \cup {Value("object", line) : line \in 1..MaxIndex}

\* index and endIndex: not passed, a number, or a string of digits.
IndexValues ==
    {undefined} \cup {Value("number", n) : n \in 0..MaxIndex}
                \cup {Value("string", n) : n \in 0..MaxIndex}

\* JavaScript truthiness of a value.
truthy(value) ==
    CASE value.type \in {"undefined", "null"} -> FALSE
      [] value.type = "number" -> value.n # 0
      [] OTHER -> TRUE

\* validateTypes.isNumber
isNumber(value) == value.type = "number"

\* The object with the single property key, and the object without properties.
Property(key, value) == [k \in {key} |-> value]
NoProperty == [k \in {} |-> undefined]

\* The position properties report() puts into warningProperties.
warningPositionsTruthyIndex(start, index, end, endIndex) ==
    (IF truthy(start) THEN Property("start", start)
     ELSE IF truthy(index) THEN Property("index", index)
     ELSE NoProperty)
    @@ (IF truthy(end) THEN Property("end", end)
        ELSE IF truthy(endIndex) THEN Property("endIndex", endIndex)
        ELSE NoProperty)

warningPositions(start, index, end, endIndex) ==
    (IF truthy(start) THEN Property("start", start)
     ELSE IF isNumber(index) THEN Property("index", index)
     ELSE NoProperty)
    @@ (IF truthy(end) THEN Property("end", end)
        ELSE IF isNumber(endIndex) THEN Property("endIndex", endIndex)
        ELSE NoProperty)

\* report() assembles the warning of a Problem that is emitted.
Assemble(start, index, end, endIndex) ==
    /\ evaluated' = [done |-> TRUE,
                     problem |-> [start |-> start, index |-> index,
                                  end |-> end, endIndex |-> endIndex],
                     warningProperties |-> warningPositions(start, index, end, endIndex)]
    /\ UNCHANGED <<stylelint, messages, fixCalls, calls, last, probe>>

NextPositions ==
    /\ ~evaluated.done
    /\ \E start \in PositionValues, end \in PositionValues,
          index \in IndexValues, endIndex \in IndexValues :
            Assemble(start, index, end, endIndex)

SpecPositions == InitIdle /\ [][NextPositions]_vars

\* ------------------------------------------------------------------ claims

\* A step of the main specification that is a report() call.
Called == calls' = calls + 1

\* The call left the whole Result State as it was and invoked no callback.
Untouched ==
    /\ stylelint' = stylelint
    /\ messages' = messages
    /\ fixCalls' = fixCalls

\* The quiet-mode filter applies to the call recorded in l.
QuietApplies(l) == stylelint.quiet /\ l.severity # "error"

\* The rule's metadata entry exists and declares it fixable / not fixable.
DeclaredFixable(ruleName) ==
    /\ ruleName \in DOMAIN stylelint.ruleMetadata
    /\ stylelint.ruleMetadata[ruleName].fixable

DeclaredNotFixable(ruleName) ==
    /\ ruleName \in DOMAIN stylelint.ruleMetadata
    /\ ~stylelint.ruleMetadata[ruleName].fixable

\* (rule, line) of the call recorded in l lies in a disabled range.
Suppressed(l) == isDisabled(l.ruleName, l.startLine, stylelint.disabledRanges)

\* after is before with exactly one record appended under ruleName.
OneFixOutcome(before, after, ruleName, record) ==
    /\ DOMAIN after = DOMAIN before \cup {ruleName}
    /\ \A r \in DOMAIN after :
          after[r] = IF r = ruleName
                     THEN Append(IF r \in DOMAIN before THEN before[r] ELSE <<>>, record)
                     ELSE before[r]

\* The bookkeeping the call may touch besides fixersData is as it was.
OnlyFixersDataChanged ==
    /\ [stylelint' EXCEPT !.fixersData = stylelint.fixersData] = stylelint
    /\ messages' = messages

\* A Problem with the rule, fix callback, line and severity of the call l.
SameProblem(l) ==
    [ruleName |-> l.ruleName, fix |-> l.fix, line |-> l.startLine,
     hasNode |-> FALSE, nodeLine |-> NoLine,
     severity |-> Override("literal", l.severity)]

\* The same call made with the quiet flag flipped, on the state before it.
WithQuietFlipped(l) ==
    report([stylelint EXCEPT !.quiet = ~@], messages, fixCalls, SameProblem(l))

\* C1: with quiet mode on, a call whose resolved severity is not 'error'
\* leaves the Result State untouched and invokes no callback; a call whose
\* resolved severity is 'error' ends the same way and leaves the same Result
\* State as the same call with the quiet flag flipped.
C1_QuietDropsNonErrorsOnly ==
    [][Called =>
        /\ (QuietApplies(last') => Untouched)
        /\ (last'.severity = "error" =>
                \A other \in {WithQuietFlipped(last')} :
                    /\ other.outcome = last'.outcome
                    /\ [other.stylelint EXCEPT !.quiet = stylelint.quiet] = stylelint'
                    /\ other.messages = messages'
                    /\ other.fixCalls = fixCalls')]_vars

\* C1 witness: with quiet mode on, an error was reported and then a non-error
\* was dropped.
C1_Witness ==
    /\ stylelint.quiet
    /\ last.outcome = "quiet" /\ last.severity = "warning"
    /\ Len(messages) = 1 /\ messages[1].severity = "error"

\* The claimed gate: globalFixEnabled AND NOT ruleDisablesFix AND
\* (ignoreSuppressions OR NOT isSuppressed(rule, line, ranges)).
ClaimedMayFix(l) ==
    /\ stylelint.config.fix
    /\ ~stylelint.config.disableFix[l.ruleName]
    /\ (stylelint.config.ignoreDisables \/ ~Suppressed(l))

\* What C2 says of a gated call: callback and fixed: true iff the gate holds,
\* else no callback, fixed: false and on to emission.
GateOutcome(l) ==
    IF ClaimedMayFix(l)
    THEN /\ fixCalls' = fixCalls + 1
         /\ OneFixOutcome(stylelint.fixersData, stylelint'.fixersData, l.ruleName,
                          FixData(TRUE, l.fix = "ranged"))
    ELSE /\ fixCalls' = fixCalls
         /\ OneFixOutcome(stylelint.fixersData, stylelint'.fixersData, l.ruleName,
                          FixData(FALSE, FALSE))
         /\ l.outcome \in {"suppressed", "warned"}

\* A call with a fix callback, for a rule declared fixable, that resolves to a line.
Gated(l) == l.fix # "none" /\ DeclaredFixable(l.ruleName) /\ l.startLine # NoLine

\* C2 as stated: the gate decides every such call, whatever the severity and
\* the quiet flag.
C2_GateBeforeQuietFilter ==
    [][(Called /\ Gated(last')) => GateOutcome(last')]_vars

\* C2 amended: the gate decides every such call that the quiet filter does not
\* drop; a call the quiet filter drops invokes no callback and records nothing.
C2_GateAfterQuietFilter ==
    [][(Called /\ Gated(last')) =>
        IF QuietApplies(last') THEN Untouched ELSE GateOutcome(last')]_vars

\* C2 witness: both sides of the gate and the quiet filter have happened:
\* a fix was applied, and a later call with a callback was dropped by the filter.
C2_Witness ==
    /\ fixCalls = 1
    /\ Gated(last) /\ last.outcome = "quiet"

\* C3: when the fix callback is invoked, it is invoked once, no warning is
\* attached, no disabled warning is collected, the latches keep their values and
\* the only change is one fixed: true record under the rule.
C3_FixedIsSilent ==
    [][(Called /\ (fixCalls' # fixCalls \/ last'.outcome = "fixed")) =>
        /\ fixCalls' = fixCalls + 1
        /\ OnlyFixersDataChanged
        /\ OneFixOutcome(stylelint.fixersData, stylelint'.fixersData, last'.ruleName,
                         FixData(TRUE, last'.fix = "ranged"))]_vars

\* C3 witness: a fix was applied on a suppressed line under ignoreDisables.
C3_Witness ==
    /\ last.outcome = "fixed"
    /\ Suppressed(last) /\ stylelint.config.ignoreDisables
    /\ fixCalls = 1

\* The range covers line L and, if it lists rules, lists ruleName.
Satisfies(range, ruleName, L) ==
    /\ range.start <= L
    /\ (range.end = NoLine \/ L <= range.end)
    /\ (range.hasRules => ruleName \in range.rules)

\* Some range stored under one of the keys satisfies the condition.
SomeRangeUnder(keys, ruleName, L) ==
    \E k \in keys \cap DOMAIN stylelint.disabledRanges :
        \E i \in 1..Len(stylelint.disabledRanges[k]) :
            Satisfies(stylelint.disabledRanges[k][i], ruleName, L)

\* C4 as stated: isDisabled is true iff a range under the rule's own key or
\* under the blanket key satisfies the condition.
C4_OwnOrBlanket ==
    probe.ruleName # "none" =>
        (probe.disabled <=>
            SomeRangeUnder({probe.ruleName, RULE_NAME_ALL}, probe.ruleName, probe.line))

\* C4 amended: isDisabled is true iff a range under the rule's own key, or,
\* only when the rule has no own key, under the blanket key, satisfies the
\* condition.
C4_OwnElseBlanket ==
    probe.ruleName # "none" =>
        (probe.disabled <=>
            SomeRangeUnder(IF probe.ruleName \in DOMAIN stylelint.disabledRanges
                           THEN {probe.ruleName} ELSE {RULE_NAME_ALL},
                           probe.ruleName, probe.line))

\* C4 witness: the rule's own ranges miss the line, a blanket range covers it,
\* and isDisabled answered false.
C4_Witness ==
    /\ probe.ruleName \in DOMAIN stylelint.disabledRanges
    /\ Len(stylelint.disabledRanges[probe.ruleName]) > 0
    /\ SomeRangeUnder({RULE_NAME_ALL}, probe.ruleName, probe.line)
    /\ ~probe.disabled

C7_RaiseLeavesStateAlone ==
    [][(Called /\ last'.outcome \in {"misused", "noline"}) => Untouched]_vars

\* C7 witness: a call raised on a Result State that earlier calls had filled.
C7_Witness ==
    /\ last.outcome \in {"misused", "noline"}
    /\ last.fix # "none" /\ stylelint.config.fix
    /\ Len(messages) = 1
    /\ stylelint.fixersData # [r \in {} |-> <<>>]

\* The call got past the autofix gate without being fixed: it reached the
\* suppression re-check.
ReachedRecheck(l) == l.outcome \in {"suppressed", "warned"}

\* The call attached its warning, and nothing else, to the result.
Emitted(l) == messages' = Append(messages, Warning(l.ruleName, l.severity))

C9_SuppressionHitRecorded ==
    [][Called =>
        /\ ((ReachedRecheck(last') /\ Suppressed(last')) =>
                stylelint'.disabledWarnings =
                    Append(stylelint.disabledWarnings,
                           [rule |-> last'.ruleName, line |-> last'.startLine]))
        /\ Len(stylelint'.disabledWarnings) >= Len(stylelint.disabledWarnings)
        /\ SubSeq(stylelint'.disabledWarnings, 1, Len(stylelint.disabledWarnings))
              = stylelint.disabledWarnings]_vars

\* C9 witness: two hits were recorded, the second under ignoreDisables for a
\* warning that was attached all the same.
C9_Witness ==
    /\ Len(stylelint.disabledWarnings) = 2
    /\ stylelint.config.ignoreDisables
    /\ last.outcome = "warned" /\ Suppressed(last)

\* C10: once stylelintError is true it stays true, and once stylelintWarning is
\* true it stays true, whatever the later calls are.
C10_LatchesStaySet ==
    [][/\ stylelint.stylelintError => stylelint'.stylelintError
       /\ stylelint.stylelintWarning => stylelint'.stylelintWarning]_vars

\* C10 witness: both latches are set and the last call attached a warning of
\* severity 'warning' after an error had been attached.
C10_Witness ==
    /\ stylelint.stylelintError /\ stylelint.stylelintWarning
    /\ Len(messages) = 2 /\ messages[1].severity = "error"
    /\ last.outcome = "warned" /\ last.severity = "warning"

\* The configured default severity ('error' when the configuration gives none).
ConfiguredDefault == defaultSeverity(stylelint.config)

\* The severity C11 gives a Problem.
ClaimedSeverity(problem) ==
    CASE problem.severity.kind = "literal" -> problem.severity.value
      [] problem.severity.kind = "function" ->
            IF problem.severity.value \in Severities THEN problem.severity.value
            ELSE ConfiguredDefault
      [] OTHER ->
            IF problem.ruleName \in DOMAIN stylelint.ruleSeverities
            THEN stylelint.ruleSeverities[problem.ruleName]
            ELSE ConfiguredDefault

\* C11: the resolved severity is the override literal; for an override
\* function its result, or the configured default when the result is not
\* usable; with no override the rule's configured severity, or the configured
\* default when the rule has none. It is always a defined severity.
C11_SeverityFallsBackToDefault ==
    evaluated.done =>
        /\ evaluated.severity = ClaimedSeverity(evaluated.problem)
        /\ evaluated.severity \in Severities

\* The template from position i on with its placeholders, counted from
\* placeholder number k, replaced as C12 says: the k-th by the k-th argument,
\* those beyond the arguments left as they are.
RECURSIVE ClaimedText(_, _, _, _)
ClaimedText(format, i, k, args) ==
    IF i > Len(format) THEN <<>>
    ELSE IF i < Len(format) /\ format[i] = "%" /\ format[i + 1] \in {"d", "s"}
    THEN (IF k <= Len(args) THEN args[k] ELSE <<format[i], format[i + 1]>>)
         \o ClaimedText(format, i + 2, k + 1, args)
    ELSE <<format[i]>> \o ClaimedText(format, i + 1, k, args)

\* C12: a template's i-th placeholder (%s or %d, counted in the template) is
\* replaced by the i-th argument, extra arguments are ignored, placeholders
\* beyond the arguments stay, also when an argument contains %s or %d.
C12_PlaceholdersOfTheTemplateOnly ==
    (evaluated.done /\ evaluated.message.kind = "string") =>
        evaluated.text = ClaimedText(evaluated.message.text, 1, 1, evaluated.messageArgs)

\* The 0-based positions of the closing parentheses of the linted value.
Parens == {i \in 0..(Len(evaluated.value) - 1) : evaluated.value[i + 1] = ")"}

\* The character i places after position p of the linted value, if any.
Following(p, i) == evaluated.value[p + 1 + i]
HasFollowing(p, i) == p + i < Len(evaluated.value)

WhitespaceChar(c) == c \in {" ", "\n", "\t", "\r", "\f"}

\* The report() calls made for the parenthesis at p with the given message.
ReportedFor(p, message) ==
    {k \in 1..Len(evaluated.reported) :
        evaluated.reported[k].at = p /\ evaluated.reported[k].problem.message = message}

\* Every report() call is for a parenthesis, with the given message.
OnlyReports(message) ==
    \A k \in 1..Len(evaluated.reported) :
        /\ evaluated.reported[k].at \in Parens
        /\ evaluated.reported[k].problem.message = message

\* What may follow the parenthesis at p in mode 'always': nothing, another
\* ")", a comma, or a space not followed by a whitespace character.
Permissible(p) ==
    \/ ~HasFollowing(p, 1)
    \/ Following(p, 1) \in {")", ","}
    \/ /\ Following(p, 1) = " "
       /\ (HasFollowing(p, 2) => ~WhitespaceChar(Following(p, 2)))

\* C13: in mode 'always' the rule reports exactly one 'expected single space'
\* problem for each closing parenthesis whose next character is not
\* permissible, and nothing else.
C13_AlwaysReportsEachOffender ==
    (evaluated.done /\ evaluated.expectation = "always") =>
        /\ OnlyReports(messages_expected)
        /\ \A p \in Parens :
              Cardinality(ReportedFor(p, messages_expected))
                  = (IF Permissible(p) THEN 0 ELSE 1)

\* C13 witness: a value of four characters was linted in mode 'always': its
\* first parenthesis is followed by a space and a newline and was reported,
\* its second parenthesis ends the value and was not.
C13_Witness ==
    /\ evaluated.done /\ evaluated.expectation = "always"
    /\ evaluated.value = <<")", " ", "\n", ")">>
    /\ Len(evaluated.reported) = 1
    /\ evaluated.reported[1].at = 0

\* C14: in mode 'never' the rule reports exactly one 'unexpected whitespace'
\* problem for each closing parenthesis immediately followed by a whitespace
\* character, and nothing for any other parenthesis, the last one of the
\* value included.
C14_NeverReportsEachWhitespace ==
    (evaluated.done /\ evaluated.expectation = "never") =>
        /\ OnlyReports(messages_rejected)
        /\ \A p \in Parens :
              Cardinality(ReportedFor(p, messages_rejected))
                  = (IF HasFollowing(p, 1) /\ WhitespaceChar(Following(p, 1))
                     THEN 1 ELSE 0)

\* C14 witness: a value of four characters was linted in mode 'never': its
\* first parenthesis is followed by a newline and was reported, the two
\* parentheses that end the value were not.
C14_Witness ==
    /\ evaluated.done /\ evaluated.expectation = "never"
    /\ evaluated.value = <<")", "\n", ")", ")">>
    /\ Len(evaluated.reported) = 1
    /\ evaluated.reported[1].at = 0

\* C18: every Problem the rule hands to report() carries the index of the
\* parenthesis it was reported for, so the problems of two parentheses of one
\* declaration differ.
C18_ProblemsCarryTheDelimiterIndex ==
    (evaluated.done /\ "reported" \in DOMAIN evaluated) =>
        /\ \A k \in 1..Len(evaluated.reported) :
              evaluated.reported[k].problem.index = evaluated.reported[k].at
        /\ \A j, k \in 1..Len(evaluated.reported) :
              evaluated.reported[j].at # evaluated.reported[k].at =>
                  evaluated.reported[j].problem # evaluated.reported[k].problem

\* The Result State with its configuration and suppression table kept and the
\* bookkeeping of earlier candidates removed.
WithoutBookkeeping(sl) ==
    [sl EXCEPT !.fixersData = [r \in {} |-> <<>>],
               !.disabledWarnings = <<>>,
               !.stylelintError = FALSE,
               !.stylelintWarning = FALSE]

\* The same call made on the Result State without bookkeeping.
OnFreshState(l) ==
    report(WithoutBookkeeping(stylelint), <<>>, 0, SameProblem(l))

\* C15: whether a report() call fixes and whether it emits a diagnostic is the
\* same as for the same Problem on a Result State of the same configuration
\* and suppression table with no suppression hits, no fix outcomes and both
\* latches false.
C15_GateIgnoresBookkeeping ==
    [][Called =>
        \A fresh \in {OnFreshState(last')} :
            /\ fresh.outcome = last'.outcome
            /\ ((fresh.fixCalls = 1) <=> (fixCalls' = fixCalls + 1))
            /\ ((Len(fresh.messages) = 1) <=> (Len(messages') = Len(messages) + 1))]_vars

\* C15 witness: a second candidate of a rule was fixed after the first one of
\* that rule had been recorded as not fixed and emitted with a latch set.
C15_Witness ==
    /\ calls = 2
    /\ last.outcome = "fixed"
    /\ Len(stylelint.fixersData[last.ruleName]) = 2
    /\ ~stylelint.fixersData[last.ruleName][1].fixed
    /\ Len(messages) = 1
    /\ stylelint.stylelintError \/ stylelint.stylelintWarning

\* The suppression table has an entry under the key.
HasEntry(key) == key \in DOMAIN stylelint.disabledRanges

\* C16: the lookup is a fallback. With an entry under the rule's own key, an
\* empty one included, the answer is that of the own ranges alone; with no own
\* entry and a blanket entry it is that of the blanket ranges; with neither it
\* is false.
C16_BlanketOnlyWithoutOwnEntry ==
    probe.ruleName # "none" =>
        /\ HasEntry(probe.ruleName) =>
              (probe.disabled <=>
                  SomeRangeUnder({probe.ruleName}, probe.ruleName, probe.line))
        /\ (~HasEntry(probe.ruleName) /\ HasEntry(RULE_NAME_ALL)) =>
              (probe.disabled <=>
                  SomeRangeUnder({RULE_NAME_ALL}, probe.ruleName, probe.line))
        /\ (~HasEntry(probe.ruleName) /\ ~HasEntry(RULE_NAME_ALL)) => ~probe.disabled

\* C16 witness: the rule's own entry is the empty sequence, a blanket range
\* covers the line, and isDisabled answered false.
C16_Witness ==
    /\ probe.ruleName # "none"
    /\ HasEntry(probe.ruleName)
    /\ stylelint.disabledRanges[probe.ruleName] = <<>>
    /\ SomeRangeUnder({RULE_NAME_ALL}, probe.ruleName, probe.line)
    /\ ~probe.disabled

\* The call recorded in l appended exactly one FixOutcome under its rule:
\* fixed: true with the callback's range if it fixed, fixed: false otherwise.
Recorded(l) ==
    OneFixOutcome(stylelint.fixersData, stylelint'.fixersData, l.ruleName,
                  FixData(l.outcome = "fixed", l.outcome = "fixed" /\ l.fix = "ranged"))

\* How many of the three things the call did: emitted a diagnostic, invoked
\* the fix callback, recorded a suppression hit without emitting.
Tallied ==
    (IF Len(messages') = Len(messages) + 1 THEN 1 ELSE 0)
    + (IF fixCalls' = fixCalls + 1 THEN 1 ELSE 0)
    + (IF /\ Len(stylelint'.disabledWarnings) = Len(stylelint.disabledWarnings) + 1
          /\ messages' = messages
       THEN 1 ELSE 0)

\* C17 as stated: every call that does not raise, a quiet-filtered one
\* included, appends exactly one FixOutcome under its rule.
C17_EveryNonRaisingCallRecorded ==
    [][(Called /\ last'.outcome \notin {"misused", "noline"}) => Recorded(last')]_vars

\* C17 amended: every call that neither raises nor is dropped by the quiet
\* filter appends exactly one FixOutcome at the end of its rule's list and is
\* exactly one of reported, fixed and suppressed; a call that raises or is
\* dropped by the quiet filter leaves all FixOutcome lists as they were.
C17_EveryProcessedCallRecorded ==
    [][Called =>
        IF last'.outcome \in {"fixed", "suppressed", "warned"}
        THEN Recorded(last') /\ Tallied = 1
        ELSE stylelint'.fixersData = stylelint.fixersData /\ Tallied = 0]_vars

\* C17 witness: a candidate was fixed and recorded, and the next one was
\* dropped by the quiet filter and left no record.
C17_Witness ==
    /\ calls = 2
    /\ last.outcome = "quiet"
    /\ fixCalls = 1
    /\ \E r \in DOMAIN stylelint.fixersData :
          /\ DOMAIN stylelint.fixersData = {r}
          /\ Len(stylelint.fixersData[r]) = 1
          /\ stylelint.fixersData[r][1].fixed

\* The Problem has an explicit position in the field.
Explicit(value) == value.type = "object"

\* The diagnostic has the property.
Has(key) == key \in DOMAIN evaluated.warningProperties

\* The precedence of one pair of fields: the explicit position wins, else the
\* index is kept iff it is a number; what is kept is the Problem's value.
Precedence(position, positionKey, index, indexKey) ==
    /\ IF Explicit(position)
       THEN Has(positionKey) /\ ~Has(indexKey)
       ELSE ~Has(positionKey) /\ (Has(indexKey) <=> index.type = "number")
    /\ Has(positionKey) => evaluated.warningProperties[positionKey] = position
    /\ Has(indexKey) => evaluated.warningProperties[indexKey] = index

\* C19: a diagnostic has start and no index if the Problem has an explicit
\* start, otherwise it has index iff the Problem's index is a number; and,
\* independently, the same for end and endIndex.
C19_ExplicitPositionWinsOverIndex ==
    evaluated.done =>
        /\ Precedence(evaluated.problem.start, "start", evaluated.problem.index, "index")
        /\ Precedence(evaluated.problem.end, "end", evaluated.problem.endIndex, "endIndex")

\* C19 witness: a Problem without start and with index 0 got index 0, and its
\* explicit end won over its numeric endIndex.
C19_Witness ==
    /\ evaluated.done
    /\ evaluated.problem.start = undefined
    /\ evaluated.problem.index = Value("number", 0)
    /\ Has("index") /\ evaluated.warningProperties["index"] = Value("number", 0)
    /\ Explicit(evaluated.problem.end)
    /\ evaluated.problem.endIndex.type = "number"
    /\ Has("end") /\ ~Has("endIndex")

\* A diagnostic of the severity has been emitted.
EmittedWith(severity) ==
    \E i \in 1..Len(messages) : messages[i].severity = severity

====
